---------------------------- MODULE Spec2Model ----------------------------
(***************************************************************************)
(* Model of app.py, the Jones Academy homeschool dashboard: the quiz       *)
(* scorer, the Reading composite, the band classifier, the plan lookup,    *)
(* and the Streamlit script pass over the student / attempt store.         *)
(*                                                                         *)
(* Numbers.  Python floats are modelled as exact rationals <<n, d>> with   *)
(* d > 0 in lowest terms, and every expression is evaluated in the order   *)
(* the source writes it.  Rounding of IEEE doubles is not modelled.        *)
(*                                                                         *)
(* Strings.  A string that the program formats or parses (student names,   *)
(* selectbox labels) is a sequence of tokens; the three characters "id:"   *)
(* are one token, every other token is a single character that is none of  *)
(* i, d and ':', so that splitting on "id:" is splitting on that token.    *)
(***************************************************************************)
EXTENDS Integers, Sequences, FiniteSets, TLC

VARIABLES
    USE_SUPABASE,   \* configuration flag, fixed when the module is loaded
    auth,           \* st.session_state["auth"] is set
    role,           \* role of the signed-in profile ("parent" without Supabase)
    student_mode,   \* st.session_state["student_mode"]
    students,       \* rows of table students, in insertion order
    attempts,       \* rows of table attempts, in insertion order
    clock,          \* the wall clock, in seconds
    selected,       \* value of the "Select student" selectbox (a label)
    page,           \* what the last script pass rendered
    form,           \* widget values of the Assessments tab (SpecAssess)
    calc            \* a function applied to drawn inputs (SpecPure)

vars == <<USE_SUPABASE, auth, role, student_mode, students, attempts, clock,
          selected, page, form, calc>>

-----------------------------------------------------------------------------
(* Bounds of the model. *)

MaxStudents == 2
MaxAttempts == 2
MaxBank == 2

-----------------------------------------------------------------------------
(* Exact rational arithmetic standing for Python float arithmetic. *)

Abs(x) == IF x < 0 THEN -x ELSE x

RECURSIVE GCD(_, _)
GCD(a, b) == IF b = 0 THEN a ELSE GCD(b, a % b)

Q(n, d) ==
    LET g == GCD(Abs(n), Abs(d))
        s == IF d < 0 THEN -1 ELSE 1
    IN  <<(s * n) \div g, (s * d) \div g>>

QInt(n) == <<n, 1>>
QAdd(x, y) == Q(x[1] * y[2] + y[1] * x[2], x[2] * y[2])
QMul(x, y) == Q(x[1] * y[1], x[2] * y[2])
QDiv(x, y) == Q(x[1] * y[2], x[2] * y[1])
QLt(x, y) == x[1] * y[2] < y[1] * x[2]
QLe(x, y) == x[1] * y[2] <= y[1] * x[2]
QMin(x, y) == IF QLt(y, x) THEN y ELSE x

None == <<>>

-----------------------------------------------------------------------------
(* Adaptive logic: band_from_score, reading_plan, math_plan. *)

FoundationsBelow == 50
DevelopingBelow == 75
OnTrackBelow == 90

Bands == {"Foundations", "Developing", "On Track", "Advanced"}

\* A classifier whose thresholds are closed on the right.
band_from_score_flipped(score) ==
    IF QLe(score, QInt(FoundationsBelow)) THEN "Foundations"
    ELSE IF QLe(score, QInt(DevelopingBelow)) THEN "Developing"
    ELSE IF QLe(score, QInt(OnTrackBelow)) THEN "On Track"
    ELSE "Advanced"

band_from_score(score) ==
    IF QLt(score, QInt(FoundationsBelow)) THEN "Foundations"
    ELSE IF QLt(score, QInt(DevelopingBelow)) THEN "Developing"
    ELSE IF QLt(score, QInt(OnTrackBelow)) THEN "On Track"
    ELSE "Advanced"

reading_plan(band) ==
    IF band = "Foundations" THEN
        << "Daily phonics/word patterns (10 min): short vowels, blends, digraphs",
           "Guided reading (15 min): 1 short leveled text, stop and decode",
           "Comprehension (10 min): who/what/where + 1 retell",
           "Fluency: 1-minute reread of same passage (track WPM weekly)" >>
    ELSE IF band = "Developing" THEN
        << "Word study (8-10 min): prefixes/suffixes + multisyllable decoding",
           "Guided reading (15 min): 1 leveled text, focus on accuracy",
           "Comprehension (10 min): main idea + 2 text-evidence questions",
           "Vocabulary (5 min): 5 words used in a sentence" >>
    ELSE IF band = "On Track" THEN
        << "Reading (20 min): grade-level text (fiction/nonfiction alternating)",
           "Comprehension (10 min): main idea, inference, evidence",
           "Writing (10 min): short response using 2 details from text" >>
    ELSE
        << "Reading (25 min): higher lexile text + discussion",
           "Comprehension (10 min): theme/argument + evidence",
           "Writing (10 min): structured paragraph (claim -> evidence -> explain)" >>

math_plan(band) ==
    IF band = "Foundations" THEN
        << "Fluency (10 min): addition/subtraction facts using number bonds",
           "Concept (15 min): place value + regrouping visuals",
           "Practice (10 min): 8-12 problems, then explain 1 out loud" >>
    ELSE IF band = "Developing" THEN
        << "Fluency (8-10 min): mixed facts + skip counting",
           "Concept (15 min): multi-digit ops OR intro fractions (based on misses)",
           "Practice (10 min): 10-15 problems + 1 word problem" >>
    ELSE IF band = "On Track" THEN
        << "Fluency (8 min): mixed facts timed set",
           "Concept (15 min): fractions/decimals/measurement (rotate)",
           "Practice (12 min): word problems + show work" >>
    ELSE
        << "Fluency (8 min): multi-step mental math",
           "Concept (20 min): pre-algebra thinking, ratios, multi-step problems",
           "Practice (10 min): challenge problem + explain reasoning" >>

-----------------------------------------------------------------------------
(* Question banks and run_mcq_test. *)

MCQ(prompt, options, answer_index, skill) ==
    [prompt |-> prompt, options |-> options,
     answer_index |-> answer_index, skill |-> skill]

READING_MCQS ==
    << MCQ("Which word is closest in meaning to 'happy'?",
           <<"sad", "glad", "angry", "tired">>, 1, "Vocabulary"),
       MCQ("In a story, the 'setting' is...",
           <<"the problem", "where/when it happens", "the main character", "the ending">>,
           1, "Story Elements"),
       MCQ("If a character is 'brave', they are...",
           <<"scared", "lazy", "courageous", "confused">>, 2, "Vocabulary"),
       MCQ("A 'summary' should...",
           <<"include every detail", "be the main points", "be only opinions",
             "be the first sentence">>, 1, "Comprehension"),
       MCQ("An 'inference' is...",
           <<"a guess based on clues", "a dictionary meaning", "a title", "a rhyme">>,
           0, "Comprehension") >>

MATH_MCQS ==
    << MCQ("What is 37 + 25?", <<"52", "62", "72", "82">>, 2, "Addition"),
       MCQ("What is 90 - 46?", <<"34", "44", "54", "64">>, 1, "Subtraction"),
       MCQ("Which is the largest?", <<"0.5", "0.05", "0.15", "0.9">>, 3, "Decimals"),
       MCQ("What is 3/4 of 20?", <<"10", "12", "15", "18">>, 2, "Fractions"),
       MCQ("If a rectangle is 6 by 4, its area is...", <<"10", "20", "24", "30">>,
           2, "Geometry") >>

\* st.radio(..., index=None) returns None until an option is picked.
NoChoice == "<None>"

\* list.index(value): the zero-based position of the first equal element.
ListIndex(options, choice) ==
    (CHOOSE i \in 1..Len(options) :
        /\ options[i] = choice
        /\ \A j \in 1..(i - 1) : options[j] # choice) - 1

EmptyDict == [k \in {} |-> 0]

\* d.get(k, 0)
DictGet(d, k) == IF k \in DOMAIN d THEN d[k] ELSE 0

\* d[k] = v
DictSet(d, k, v) == [x \in (DOMAIN d) \cup {k} |-> IF x = k THEN v ELSE d[x]]

\* The for loop of run_mcq_test from position i on; acc = <<correct, misses_by_skill>>.
RECURSIVE ScoreLoop(_, _, _, _)
ScoreLoop(bank, answers, i, acc) ==
    IF i > Len(bank) THEN acc
    ELSE LET q == bank[i]
             choice == answers[i]
         IN  IF choice = NoChoice THEN ScoreLoop(bank, answers, i + 1, acc)
             ELSE IF ListIndex(q.options, choice) = q.answer_index
                  THEN ScoreLoop(bank, answers, i + 1, <<acc[1] + 1, acc[2]>>)
                  ELSE ScoreLoop(bank, answers, i + 1,
                         <<acc[1], DictSet(acc[2], q.skill, DictGet(acc[2], q.skill) + 1)>>)

\* A scorer that divides by the number of answered questions.
run_mcq_test_answered(bank, answers) ==
    LET acc == ScoreLoop(bank, answers, 1, <<0, EmptyDict>>)
        answered == Cardinality({i \in 1..Len(bank) : answers[i] # NoChoice})
    IN  IF answered = 0 THEN <<QInt(0), acc[2]>>
        ELSE <<QMul(QDiv(QInt(acc[1]), QInt(answered)), QInt(100)), acc[2]>>

\* A scorer that counts an unanswered question as a miss.
run_mcq_test_countsblank(bank, answers) ==
    LET acc == ScoreLoop(bank, answers, 1, <<0, EmptyDict>>)
        blank == {i \in 1..Len(bank) : answers[i] = NoChoice}
        sk == {bank[i].skill : i \in blank}
        m == [s \in (DOMAIN acc[2]) \cup sk |->
                 DictGet(acc[2], s) + Cardinality({i \in blank : bank[i].skill = s})]
    IN  <<QMul(QDiv(QInt(acc[1]), QInt(Len(bank))), QInt(100)), m>>

run_mcq_test(bank, answers) ==
    LET acc == ScoreLoop(bank, answers, 1, <<0, EmptyDict>>)
        answered == Cardinality({i \in 1..Len(bank) : answers[i] # NoChoice})
    IN  IF answered = 0 THEN <<QInt(0), acc[2]>>
        ELSE <<QMul(QDiv(QInt(acc[1]), QInt(Len(bank))), QInt(100)), acc[2]>>

-----------------------------------------------------------------------------
(* The Reading composite of the Assessments tab. *)

WpmCeiling == 120
WpmMax == 300
RatingMax == 10

\* A fluency component without the ceiling.
fluency_component_uncapped(wpm) ==
    QMul(QDiv(QInt(wpm), QInt(WpmCeiling)), QInt(10))

fluency_component(wpm) ==
    QMin(QInt(10), QMul(QDiv(QInt(wpm), QInt(WpmCeiling)), QInt(10)))

\* A composite whose fluency term carries the comprehension weight.
combined_reading_weights(reading_score, wpm, comprehension_rating) ==
    QAdd(QAdd(QMul(Q(7, 10), reading_score),
              QMul(Q(2, 10), QInt(comprehension_rating * 10))),
         QMul(Q(2, 10), QMul(fluency_component(wpm), QInt(10))))

combined_reading(reading_score, wpm, comprehension_rating) ==
    QAdd(QAdd(QMul(Q(7, 10), reading_score),
              QMul(Q(2, 10), QInt(comprehension_rating * 10))),
         QMul(Q(1, 10), QMul(fluency_component(wpm), QInt(10))))

-----------------------------------------------------------------------------
(* Inputs of the pure functions (specification SpecPure). *)

Range(f) == {f[i] : i \in DOMAIN f}

\* Every answer set of a bank: per position, no choice or one of its options.
RECURSIVE AnswerSets(_)
AnswerSets(bank) ==
    IF bank = <<>> THEN {<<>>}
    ELSE {<<c>> \o rest : c \in Range(bank[1].options) \cup {NoChoice},
                          rest \in AnswerSets(Tail(bank))}

ItemInputs ==
    {MCQ("q", o, k, s) : o \in {<<"x", "y", "z">>, <<"x", "y", "x">>},
                         k \in {0, 2}, s \in {"S1", "S2"}}

RECURSIVE BanksOfLen(_)
BanksOfLen(n) ==
    IF n = 0 THEN {<<>>}
    ELSE {<<q>> \o rest : q \in ItemInputs, rest \in BanksOfLen(n - 1)}

BankInputs ==
    {READING_MCQS, MATH_MCQS} \cup UNION {BanksOfLen(n) : n \in 1..MaxBank}

QuizInputs ==
    UNION {{[fn |-> "run_mcq_test", bank |-> b, answers |-> a, out |-> None] :
              a \in AnswerSets(b)} : b \in BankInputs}

\* Scores from -10 to 110 in steps of a quarter.
BandInputs ==
    {[fn |-> "band_from_score", score |-> Q(k, 4), out |-> None] : k \in (-40)..440}

PercentInputs ==
    {Q(100 * c, n) : c \in 0..5, n \in 1..5} \cup {QInt(5 * k) : k \in 0..20}

CompositeInputs ==
    {[fn |-> "combined_reading", reading_score |-> p, wpm |-> w,
      comprehension_rating |-> r, out |-> None] :
        p \in {x \in PercentInputs : QLe(x, QInt(100))},
        w \in 0..WpmMax, r \in 0..RatingMax}

NoCalc == [fn |-> "none", out |-> None]

ScoreQuiz ==
    /\ calc.fn = "run_mcq_test" /\ calc.out = None
    /\ calc' = [calc EXCEPT !.out = run_mcq_test(calc.bank, calc.answers)]

Classify ==
    /\ calc.fn = "band_from_score" /\ calc.out = None
    /\ calc' = [calc EXCEPT !.out = <<band_from_score(calc.score)>>]

Combine ==
    /\ calc.fn = "combined_reading" /\ calc.out = None
    /\ calc' = [calc EXCEPT !.out =
                  combined_reading(calc.reading_score, calc.wpm, calc.comprehension_rating)]

-----------------------------------------------------------------------------
(* Strings as token sequences: str.strip, str.split, str.replace, int(). *)

DigitTokens == <<"0", "1", "2", "3", "4", "5", "6", "7", "8", "9">>

RECURSIVE lstrip(_)
lstrip(s) == IF s # <<>> /\ s[1] = " " THEN lstrip(Tail(s)) ELSE s

RECURSIVE rstrip(_)
rstrip(s) ==
    IF s # <<>> /\ s[Len(s)] = " " THEN rstrip(SubSeq(s, 1, Len(s) - 1)) ELSE s

strip(s) == rstrip(lstrip(s))

\* str(n) for n >= 0
RECURSIVE str(_)
str(n) == IF n < 10 THEN <<DigitTokens[n + 1]>>
          ELSE str(n \div 10) \o <<DigitTokens[(n % 10) + 1]>>

\* s.split(sep) for a one-token separator
RECURSIVE split(_, _)
split(s, sep) ==
    IF \A i \in 1..Len(s) : s[i] # sep THEN <<s>>
    ELSE LET i == CHOOSE k \in 1..Len(s) :
                     s[k] = sep /\ \A j \in 1..(k - 1) : s[j] # sep
         IN  <<SubSeq(s, 1, i - 1)>> \o split(SubSeq(s, i + 1, Len(s)), sep)

\* s.replace(tok, "")
remove(s, tok) == SelectSeq(s, LAMBDA t : t # tok)

DigitValue(t) == (CHOOSE k \in 1..10 : DigitTokens[k] = t) - 1

RECURSIVE DigitsValue(_)
DigitsValue(s) ==
    IF s = <<>> THEN 0
    ELSE DigitsValue(SubSeq(s, 1, Len(s) - 1)) * 10 + DigitValue(s[Len(s)])

\* int(s): <<value>>, or None where Python raises ValueError
int(s) ==
    LET t == strip(s)
    IN  IF t # <<>> /\ \A i \in 1..Len(t) : t[i] \in Range(DigitTokens)
        THEN <<DigitsValue(t)>>
        ELSE None

\* f"{row['name']} (id:{row['id']})"
Label(row) == row.name \o <<" ", "(", "id:">> \o str(row.id) \o <<")">>

\* int(selected.split("id:")[1].replace(")", "").strip())
student_id_of(sel) == int(strip(remove(split(sel, "id:")[2], ")")))

-----------------------------------------------------------------------------
(* The store: tables students and attempts, and the queries over them. *)

\* Names typed into the Add Student form (age and grade play no part in any
\* decision of the script and are left out of the rows).
NameInputs ==
    { <<>>, <<" ">>, <<" ", "a", " ">>, <<"id:", "2", " ", "id:">> }

\* Every order in which ORDER BY created_at DESC may return the rows: rows of
\* equal created_at come in an order SQL leaves unspecified.
RECURSIVE OrderByCreatedDesc(_)
OrderByCreatedDesc(rows) ==
    IF rows = <<>> THEN {<<>>}
    ELSE LET n == Len(rows)
             newest == {i \in 1..n :
                          \A j \in 1..n : rows[i].created_at >= rows[j].created_at}
         IN  UNION {{<<rows[i]>> \o rest :
                       rest \in OrderByCreatedDesc(
                                   SubSeq(rows, 1, i - 1) \o SubSeq(rows, i + 1, n))} :
                    i \in newest}

get_students(st) == OrderByCreatedDesc(st)

get_attempts(at, student_id) ==
    OrderByCreatedDesc(SelectSeq(at, LAMBDA r : r.student_id = student_id))

\* The seconds the wall clock shows during a run.
Seconds == {0, 1}

\* int(time.time()) read by an insert: the clock does not run backwards.
Now == {t \in Seconds : t >= clock}

\* An insert that stores the name as typed.
add_student_raw(st, name, t) ==
    Append(st, [id |-> Len(st) + 1, name |-> name, created_at |-> t])

add_student(st, name, t) ==
    Append(st, [id |-> Len(st) + 1, name |-> strip(name), created_at |-> t])

\* A write that replaces the student's stored attempt of the subject, if any.
log_attempt_upsert(at, student_id, subject, test_name, score, meta, t) ==
    LET row == [id |-> Len(at) + 1, student_id |-> student_id, subject |-> subject,
                test_name |-> test_name, score |-> score, meta |-> meta,
                created_at |-> t]
        old == {i \in 1..Len(at) :
                  at[i].student_id = student_id /\ at[i].subject = subject}
    IN  IF old = {} THEN Append(at, row)
        ELSE [i \in 1..Len(at) |-> IF i \in old THEN [row EXCEPT !.id = i] ELSE at[i]]

log_attempt(at, student_id, subject, test_name, score, meta, t) ==
    Append(at, [id |-> Len(at) + 1, student_id |-> student_id, subject |-> subject,
                test_name |-> test_name, score |-> score, meta |-> meta,
                created_at |-> t])

-----------------------------------------------------------------------------
(* One pass of the script: what it renders. *)

Roles == {"admin", "parent", "student"}

NoResults == [shown |-> FALSE, read |-> None, math |-> None]
NoPlan == [shown |-> FALSE, warning |-> FALSE, rb |-> "", mb |-> "",
           reading |-> <<>>, math |-> <<>>]

\* reached: the place where the pass ended:
\*   "login" st.stop() of the login gate, "sidebar" st.stop() for an empty
\*   student list, "select" an exception parsing the selection, "read_save" /
\*   "math_save" an exception in a save handler, "end" the end of the script.
Page(reached, error, kid, form_shown, sid, tabs, results, plan, reset_button) ==
    [reached |-> reached, error |-> error, kid |-> kid, add_student |-> form_shown,
     student_id |-> sid, tabs |-> tabs, results |-> results, plan |-> plan,
     reset_button |-> reset_button]

Uncaught == "uncaught exception"
ResetMessage == "Database reset. Reload the page."

\* attempts[attempts["subject"] == subject].head(1)
head1(df, subject) ==
    LET rows == SelectSeq(df, LAMBDA r : r.subject = subject)
    IN  IF rows = <<>> THEN None ELSE <<rows[1]>>

\* The Results tab.
ResultsTab(df) ==
    LET latest_read == head1(df, "Reading")
        latest_math == head1(df, "Math")
        metric(l) == IF l = None THEN None
                     ELSE <<l[1].score, band_from_score(l[1].score)>>
    IN  [shown |-> TRUE,
         read |-> IF df = <<>> THEN None ELSE metric(latest_read),
         math |-> IF df = <<>> THEN None ELSE metric(latest_math)]

\* A plan tab that shortens the reading plan of a student with a perfect score.
PlanTab_byscore(df) ==
    LET r == head1(df, "Reading")
        m == head1(df, "Math")
    IN  IF df = <<>> \/ r = None \/ m = None
        THEN [NoPlan EXCEPT !.shown = TRUE, !.warning = TRUE]
        ELSE LET rb == band_from_score(r[1].score)
                 mb == band_from_score(m[1].score)
             IN  [shown |-> TRUE, warning |-> FALSE, rb |-> rb, mb |-> mb,
                  reading |-> IF r[1].score = QInt(100) THEN Tail(reading_plan(rb))
                              ELSE reading_plan(rb),
                  math |-> math_plan(mb)]

\* The Adaptive Plan tab.
PlanTab(df) ==
    LET r == head1(df, "Reading")
        m == head1(df, "Math")
        latest_read_score == IF df # <<>> /\ r # None THEN <<r[1].score>> ELSE None
        latest_math_score == IF df # <<>> /\ m # None THEN <<m[1].score>> ELSE None
    IN  IF latest_read_score = None \/ latest_math_score = None
        THEN [NoPlan EXCEPT !.shown = TRUE, !.warning = TRUE]
        ELSE LET rb == band_from_score(latest_read_score[1])
                 mb == band_from_score(latest_math_score[1])
             IN  [shown |-> TRUE, warning |-> FALSE, rb |-> rb, mb |-> mb,
                  reading |-> reading_plan(rb), math |-> math_plan(mb)]

\* A gate that forces student mode on no role.
GateStudentMode_open(supa, rl, sm) == sm

\* student_mode after the role gate of the pass.
GateStudentMode(supa, rl, sm) ==
    IF supa /\ rl \notin {"admin", "parent"} THEN TRUE ELSE sm

AddStudentShown(supa, rl, sm) == (~sm) /\ ((~supa) \/ rl \in {"admin", "parent"})

BaseTabs(supa, rl, kid_mode) ==
    IF kid_mode THEN <<"Welcome", "Assessments", "Adaptive Plan">>
    ELSE <<"Welcome", "Assessments", "Results", "Adaptive Plan">>
         \o (IF (~supa) \/ rl = "admin" THEN <<"Admin">> ELSE <<>>)

AdminShown(supa, rl, kid_mode) ==
    (~kid_mode) /\ ((~supa) \/ rl = "admin")
    /\ "Admin" \in Range(BaseTabs(supa, rl, kid_mode))

LoginPage(error) ==
    Page("login", error, FALSE, FALSE, None, <<>>, NoResults, NoPlan, FALSE)

\* A pass that raises in a handler at `where`.
ExceptionPage(where, supa, rl, sm, sel) ==
    Page(where, Uncaught, sm, AddStudentShown(supa, rl, sm), student_id_of(sel),
         BaseTabs(supa, rl, sm), NoResults, NoPlan, FALSE)

\* Every page a pass with no button pressed may render over store (st, at);
\* sm is student_mode after the role gate, error a message of the sidebar.
Render(supa, au, rl, sm, st, at, sel, error) ==
    IF supa /\ ~au THEN {LoginPage(error)}
    ELSE IF st = <<>> THEN
        {Page("sidebar", error, sm, AddStudentShown(supa, rl, sm), None, <<>>,
              NoResults, NoPlan, FALSE)}
    ELSE IF student_id_of(sel) = None THEN
        {Page("select", Uncaught, sm, AddStudentShown(supa, rl, sm), None, <<>>,
              NoResults, NoPlan, FALSE)}
    ELSE LET student_id == student_id_of(sel)[1]
             kid_mode == sm
             results == IF kid_mode THEN {NoResults}
                        ELSE {ResultsTab(df) : df \in get_attempts(at, student_id)}
             plans == {PlanTab(df) : df \in get_attempts(at, student_id)}
         IN  {Page("end", error, kid_mode, AddStudentShown(supa, rl, sm),
                   <<student_id>>, BaseTabs(supa, rl, kid_mode), r, p,
                   AdminShown(supa, rl, kid_mode) /\ ~supa) :
                 r \in results, p \in plans}

Labels(st) == {Label(st[i]) : i \in 1..Len(st)}

\* The value of the selectbox in a pass: kept while its options are the same,
\* else the first option of the new list.
Selection(st_old, st_new, sel) ==
    IF st_new = <<>> THEN {sel}
    ELSE IF Labels(st_new) = Labels(st_old) /\ sel \in Labels(st_new) THEN {sel}
    ELSE {Label(df[1]) : df \in get_students(st_new)}

-----------------------------------------------------------------------------
(* Widget values of the Assessments tab. *)

\* The option a radio holds at a position: "ok" the correct option, "bad" the
\* option after it, "-" nothing picked.
Pick(q, how) ==
    IF how = "-" THEN NoChoice
    ELSE IF how = "ok" THEN q.options[q.answer_index + 1]
    ELSE q.options[((q.answer_index + 1) % Len(q.options)) + 1]

Answers(bank, pattern) == [i \in 1..Len(bank) |-> Pick(bank[i], pattern[i])]

Form(readp, mathp, wpm, rating) ==
    [read |-> Answers(READING_MCQS, readp), math |-> Answers(MATH_MCQS, mathp),
     wpm |-> wpm, comprehension_rating |-> rating]

\* The widgets as the script first renders them.
NoForm == Form(<<"-", "-", "-", "-", "-">>, <<"-", "-", "-", "-", "-">>, 0, 5)

\* Two fillings of the tab: 4/5 read at 90 wpm rated 7, and 5/5 at 120 wpm rated 10,
\* each with 2/5 in Math.
FormInputs ==
    { Form(<<"bad", "ok", "ok", "ok", "ok">>, <<"ok", "bad", "bad", "ok", "bad">>, 90, 7),
      Form(<<"ok", "ok", "ok", "ok", "ok">>, <<"ok", "bad", "bad", "ok", "bad">>, 120, 10) }

PatternPairs ==
    { <<<<"-", "-", "-", "-", "-">>, <<"-", "-", "-", "-", "-">>>>,
      <<<<"bad", "bad", "bad", "bad", "bad">>, <<"ok", "ok", "ok", "ok", "ok">>>>,
      <<<<"ok", "ok", "ok", "ok", "bad">>, <<"ok", "bad", "bad", "bad", "bad">>>>,
      <<<<"ok", "ok", "ok", "ok", "ok">>, <<"bad", "bad", "bad", "bad", "bad">>>>,
      <<<<"ok", "-", "bad", "-", "ok">>, <<"-", "ok", "-", "bad", "-">>>> }

\* Every value the number input and the slider accept, over PatternPairs.
AllForms ==
    {Form(pp[1], pp[2], w, r) : pp \in PatternPairs, w \in 0..WpmMax, r \in 0..RatingMax}

-----------------------------------------------------------------------------
(* The interactions. Each action is one click and the script pass (with the *)
(* rerun it asks for) that serves it.                                       *)

\* Sign in: sb_sign_in raises on bad credentials and the caller reports it.
SignIn ==
    /\ USE_SUPABASE /\ ~auth /\ page.reached = "login"
    /\ \E ok \in BOOLEAN, r \in Roles :
         IF ~ok
         THEN /\ page' = LoginPage("Login failed. Check email/password.")
              /\ UNCHANGED <<auth, role, student_mode, selected>>
         ELSE /\ auth' = TRUE
              /\ role' = r
              /\ student_mode' = GateStudentMode(USE_SUPABASE, r, student_mode)
              /\ selected' \in Selection(<<>>, students, selected)
              /\ page' \in Render(USE_SUPABASE, TRUE, r, student_mode', students,
                                  attempts, selected', "")
    /\ UNCHANGED <<USE_SUPABASE, students, attempts, clock, form, calc>>

\* The "Student Mode (Kid-safe)" toggle of the sidebar.
ToggleStudentMode ==
    /\ USE_SUPABASE /\ auth /\ role \in {"admin", "parent"}
    /\ student_mode' = ~student_mode
    /\ page' \in Render(USE_SUPABASE, auth, role, student_mode', students, attempts,
                        selected, "")
    /\ UNCHANGED <<USE_SUPABASE, auth, role, students, attempts, clock, selected,
                   form, calc>>

\* The "Create Student" button with the Name input holding name.
CreateStudentNamed(name) ==
    /\ page.add_student
    /\ IF strip(name) = <<>>
       THEN /\ page' \in Render(USE_SUPABASE, auth, role, student_mode, students,
                                attempts, selected, "Name is required.")
            /\ UNCHANGED <<students, clock, selected>>
       ELSE /\ Len(students) < MaxStudents
            /\ \E t \in Now :
                 /\ students' = add_student(students, name, t)
                 /\ clock' = t
            /\ selected' \in Selection(students, students', selected)
            /\ page' \in Render(USE_SUPABASE, auth, role, student_mode, students',
                                attempts, selected', "")
    /\ UNCHANGED <<USE_SUPABASE, auth, role, student_mode, attempts, form, calc>>

CreateStudent == \E name \in NameInputs : CreateStudentNamed(name)

\* Picking another option of the "Select student" selectbox.
SelectStudent ==
    /\ page.reached \in {"select", "read_save", "math_save", "end"}
    /\ IF students = <<>>
       THEN selected' = selected
       ELSE selected' \in Labels(students) \ {selected}
    /\ page' \in Render(USE_SUPABASE, auth, role, student_mode, students, attempts,
                        selected', "")
    /\ UNCHANGED <<USE_SUPABASE, auth, role, student_mode, students, attempts, clock,
                   form, calc>>

\* A pass served for a click on a page whose student list has since been dropped:
\* it stops at the empty-list notice before any handler.
StalePass ==
    /\ students = <<>>
    /\ page' \in Render(USE_SUPABASE, auth, role, student_mode, students, attempts,
                        selected, "")
    /\ UNCHANGED <<students, attempts, clock>>

\* The "Save Reading Result" button with the widgets holding f.
SaveReading(f, fails) ==
    /\ page.reached \in {"read_save", "math_save", "end"}
    /\ \/ StalePass
       \/ /\ students # <<>>
          /\ LET student_id == student_id_of(selected)[1]
                 quiz == run_mcq_test(READING_MCQS, f.read)
                 reading_score == quiz[1]
                 reading_misses == quiz[2]
                 combined == combined_reading(reading_score, f.wpm,
                                              f.comprehension_rating)
                 meta == [mcq_score |-> reading_score, wpm |-> f.wpm,
                          comprehension_rating_0_10 |-> f.comprehension_rating,
                          misses_by_skill |-> reading_misses]
             IN  IF fails
                 THEN /\ page' = ExceptionPage("read_save", USE_SUPABASE, role,
                                               student_mode, selected)
                      /\ UNCHANGED <<students, attempts, clock>>
                 ELSE /\ Len(attempts) < MaxAttempts
                      /\ \E t \in Now :
                           /\ attempts' = log_attempt(attempts, student_id, "Reading",
                                                      "Baseline", combined, meta, t)
                           /\ clock' = t
                      /\ page' \in Render(USE_SUPABASE, auth, role, student_mode,
                                          students, attempts', selected, "")
                      /\ UNCHANGED students
    /\ UNCHANGED <<USE_SUPABASE, auth, role, student_mode, selected, form, calc>>

\* The "Save Math Result" button with the widgets holding f.
SaveMath(f, fails) ==
    /\ page.reached \in {"math_save", "end"}
    /\ \/ StalePass
       \/ /\ students # <<>>
          /\ LET student_id == student_id_of(selected)[1]
                 quiz == run_mcq_test(MATH_MCQS, f.math)
                 math_score == quiz[1]
                 math_misses == quiz[2]
                 meta == [mcq_score |-> math_score, misses_by_skill |-> math_misses]
             IN  IF fails
                 THEN /\ page' = ExceptionPage("math_save", USE_SUPABASE, role,
                                               student_mode, selected)
                      /\ UNCHANGED <<students, attempts, clock>>
                 ELSE /\ Len(attempts) < MaxAttempts
                      /\ \E t \in Now :
                           /\ attempts' = log_attempt(attempts, student_id, "Math",
                                                      "Baseline", math_score, meta, t)
                           /\ clock' = t
                      /\ page' \in Render(USE_SUPABASE, auth, role, student_mode,
                                          students, attempts', selected, "")
                      /\ UNCHANGED students
    /\ UNCHANGED <<USE_SUPABASE, auth, role, student_mode, selected, form, calc>>

SaveReadingResult == \E f \in FormInputs, fails \in BOOLEAN : SaveReading(f, fails)

SaveMathResult == \E f \in FormInputs, fails \in BOOLEAN : SaveMath(f, fails)

\* The "Reset database (DANGER)" button: the page is rendered, then both tables
\* are dropped, and no rerun follows.
ResetDatabase ==
    /\ page.reset_button
    /\ \/ StalePass
       \/ /\ students # <<>>
          /\ page' \in {[pg EXCEPT !.error = ResetMessage] :
                          pg \in Render(USE_SUPABASE, auth, role, student_mode,
                                        students, attempts, selected, "")}
          /\ students' = <<>>
          /\ attempts' = <<>>
          /\ UNCHANGED clock
    /\ UNCHANGED <<USE_SUPABASE, auth, role, student_mode, selected, form, calc>>

-----------------------------------------------------------------------------
(* Specification Spec: the dashboard over the local SQLite store (no        *)
(* Supabase secrets); SpecCloud: the dashboard over Supabase, behind login. *)

Init ==
    /\ USE_SUPABASE = FALSE
    /\ auth = FALSE
    /\ role = "parent"
    /\ student_mode = FALSE
    /\ students = <<>>
    /\ attempts = <<>>
    /\ clock = 0
    /\ selected = <<>>
    /\ page \in Render(USE_SUPABASE, FALSE, "parent", FALSE, <<>>, <<>>, <<>>, "")
    /\ form = NoForm
    /\ calc = NoCalc

Next ==
    \/ CreateStudent
    \/ SelectStudent
    \/ SaveReadingResult
    \/ SaveMathResult
    \/ ResetDatabase

Spec == Init /\ [][Next]_vars

\* A student held by the store before the session starts.
FirstStudent == <<[id |-> 1, name |-> <<"a">>, created_at |-> 1]>>

\* The cloud store outlives the session: it is empty or already holds a student.
InitCloud ==
    /\ USE_SUPABASE = TRUE
    /\ auth = FALSE
    /\ role = "parent"
    /\ student_mode = FALSE
    /\ students \in {<<>>, FirstStudent}
    /\ attempts = <<>>
    /\ clock = IF students = <<>> THEN 0 ELSE 1
    /\ selected = <<>>
    /\ page \in Render(TRUE, FALSE, "parent", FALSE, <<>>, <<>>, <<>>, "")
    /\ form = NoForm
    /\ calc = NoCalc

NextCloud ==
    \/ SignIn
    \/ ToggleStudentMode
    \/ CreateStudent
    \/ SelectStudent
    \/ SaveReadingResult
    \/ SaveMathResult

SpecCloud == InitCloud /\ [][NextCloud]_vars

\* Specification SpecAll: a session in either mode, its saves made with one
\* filling of the widgets and writes that succeed (the gates read neither).
InitAll == Init \/ InitCloud

GateForm ==
    Form(<<"ok", "ok", "ok", "ok", "ok">>, <<"ok", "bad", "bad", "ok", "bad">>, 120, 10)

SaveReadingFilled == SaveReading(GateForm, FALSE)

SaveMathFilled == SaveMath(GateForm, FALSE)

NextAll ==
    \/ SignIn
    \/ ToggleStudentMode
    \/ CreateStudent
    \/ SelectStudent
    \/ SaveReadingFilled
    \/ SaveMathFilled
    \/ ResetDatabase

SpecAll == InitAll /\ [][NextAll]_vars

-----------------------------------------------------------------------------
(* Specification SpecPure: the pure functions applied to drawn inputs. *)

InitPure ==
    /\ USE_SUPABASE = FALSE
    /\ auth = FALSE
    /\ role = "parent"
    /\ student_mode = FALSE
    /\ students = <<>>
    /\ attempts = <<>>
    /\ clock = 0
    /\ selected = <<>>
    /\ page \in Render(FALSE, FALSE, "parent", FALSE, <<>>, <<>>, <<>>, "")
    /\ form = NoForm
    /\ calc \in QuizInputs \cup BandInputs \cup CompositeInputs

NextPure ==
    \/ (ScoreQuiz /\ UNCHANGED <<USE_SUPABASE, auth, role, student_mode, students,
                                 attempts, clock, selected, page, form>>)
    \/ (Classify /\ UNCHANGED <<USE_SUPABASE, auth, role, student_mode, students,
                                attempts, clock, selected, page, form>>)
    \/ (Combine /\ UNCHANGED <<USE_SUPABASE, auth, role, student_mode, students,
                               attempts, clock, selected, page, form>>)

SpecPure == InitPure /\ [][NextPure]_vars

-----------------------------------------------------------------------------
(* Specification SpecAssess: the Assessments tab of a local store holding   *)
(* one student, the widgets drawn over every value they accept.             *)

InitAssess ==
    /\ USE_SUPABASE = FALSE
    /\ auth = FALSE
    /\ role = "parent"
    /\ student_mode = FALSE
    /\ students = FirstStudent
    /\ attempts = <<>>
    /\ clock = 1
    /\ selected = Label(FirstStudent[1])
    /\ page \in Render(FALSE, FALSE, "parent", FALSE, students, attempts, selected, "")
    /\ form \in AllForms
    /\ calc = NoCalc

SubmitReading == SaveReading(form, FALSE)

SubmitMath == SaveMath(form, FALSE)

NextAssess == SubmitReading \/ SubmitMath

SpecAssess == InitAssess /\ [][NextAssess]_vars

-----------------------------------------------------------------------------
(* Properties of the quiz scorer (SpecPure). *)

Answered(bank, answers) == {i \in 1..Len(bank) : answers[i] # NoChoice}

Right(bank, answers) ==
    {i \in Answered(bank, answers) :
        ListIndex(bank[i].options, answers[i]) = bank[i].answer_index}

Wrong(bank, answers) == Answered(bank, answers) \ Right(bank, answers)

Scored == calc.fn = "run_mcq_test" /\ calc.out # None

\* C1: with at least one answer present, run_mcq_test returns the percentage
\* 100*c/n for c right answers out of n questions, and a misses map whose keys are
\* the skills of the answered-but-wrong positions, each counted exactly (unanswered
\* positions add to neither); all answers right gives (100.0, {}).
C1_PercentageAndMisses ==
    (Scored /\ Answered(calc.bank, calc.answers) # {}) =>
        LET n == Len(calc.bank)
            c == Cardinality(Right(calc.bank, calc.answers))
            wrong == Wrong(calc.bank, calc.answers)
            percentage == calc.out[1]
            misses == calc.out[2]
        IN  /\ QMul(percentage, QInt(n)) = QInt(100 * c)
            /\ DOMAIN misses = {calc.bank[i].skill : i \in wrong}
            /\ \A s \in DOMAIN misses :
                 misses[s] = Cardinality({i \in wrong : calc.bank[i].skill = s})
            /\ (c = n => calc.out = <<QInt(100), EmptyDict>>)

\* The Reading bank scored with four answers present, two of them wrong, both Vocabulary.
C1_Witness ==
    /\ Scored
    /\ calc.bank = READING_MCQS
    /\ Cardinality(Answered(calc.bank, calc.answers)) = 4
    /\ calc.out[1] = QInt(40)
    /\ calc.out[2] = [s \in {"Vocabulary"} |-> 2]

\* C2: with no answer present run_mcq_test returns exactly (0.0, {}); with every
\* position answered and every answer wrong it returns 0.0 and a non-empty misses map.
C2_UnattemptedIsZeroAndEmpty ==
    Scored =>
        /\ (Answered(calc.bank, calc.answers) = {} => calc.out = <<QInt(0), EmptyDict>>)
        /\ (Wrong(calc.bank, calc.answers) = 1..Len(calc.bank) =>
               /\ calc.out[1] = QInt(0)
               /\ DOMAIN calc.out[2] # {})

\* The Math bank scored with nothing answered.
C2_Witness ==
    /\ Scored
    /\ calc.bank = MATH_MCQS
    /\ Answered(calc.bank, calc.answers) = {}
    /\ calc.out = <<QInt(0), EmptyDict>>

-----------------------------------------------------------------------------
(* Properties of the band classifier and of the composite (SpecPure). *)

\* C3: band_from_score is a step function without gaps or overlaps: below 50
\* Foundations, from 50 below 75 Developing, from 75 below 90 On Track, from 90 on
\* Advanced; 50, 75 and 90 fall in the higher band, scores below 0 and above 100
\* are classified too.
C3_BandSteps ==
    (calc.fn = "band_from_score" /\ calc.out # None) =>
        LET x == calc.score
            b == calc.out[1]
        IN  /\ b \in Bands
            /\ (b = "Foundations") <=> QLt(x, QInt(50))
            /\ (b = "Developing") <=> (QLe(QInt(50), x) /\ QLt(x, QInt(75)))
            /\ (b = "On Track") <=> (QLe(QInt(75), x) /\ QLt(x, QInt(90)))
            /\ (b = "Advanced") <=> QLe(QInt(90), x)

\* The boundary 50 classified as Developing.
C3_Witness ==
    /\ calc.fn = "band_from_score"
    /\ calc.score = QInt(50)
    /\ calc.out = <<"Developing">>

\* C10: the composite computed with a fluency above 120 equals the composite with
\* fluency 120, and from 0 to 120 it does not decrease as the fluency grows.
C10_FluencySaturates ==
    (calc.fn = "combined_reading" /\ calc.out # None) =>
        LET p == calc.reading_score
            r == calc.comprehension_rating
        IN  /\ (calc.wpm > 120 => calc.out = combined_reading(p, 120, r))
            /\ (calc.wpm < 120 => QLe(calc.out, combined_reading(p, calc.wpm + 1, r)))

\* The composite of 80 percent, 200 words per minute and rating 5.
C10_Witness ==
    /\ calc.fn = "combined_reading"
    /\ calc.reading_score = QInt(80)
    /\ calc.wpm = 200
    /\ calc.comprehension_rating = 5
    /\ calc.out = QInt(76)

-----------------------------------------------------------------------------
(* Properties of the saved scores (SpecAssess). *)

\* C9: every persisted score lies in [0, 100]; a Reading score is
\* 0.7*mcq + 0.2*(rating*10) + 0.1*(fluency_component*10) of the widgets' values,
\* a Math score is the quiz percentage unmodified.
C9_ScoresInRange ==
    \A i \in 1..Len(attempts) :
        LET a == attempts[i]
            capped == IF form.wpm > 120 THEN 120 ELSE form.wpm
        IN  /\ QLe(QInt(0), a.score) /\ QLe(a.score, QInt(100))
            /\ a.subject = "Reading" =>
                 /\ a.meta.mcq_score = run_mcq_test(READING_MCQS, form.read)[1]
                 /\ QMul(a.score, QInt(120)) =
                      QAdd(QMul(QInt(84), a.meta.mcq_score),
                           QInt(240 * form.comprehension_rating + 10 * capped))
            /\ a.subject = "Math" =>
                 a.score = run_mcq_test(MATH_MCQS, form.math)[1]

\* A Reading score of 100 saved at 300 words per minute, and a Math score after it.
C9_Witness ==
    /\ Len(attempts) = 2
    /\ attempts[1].subject = "Reading"
    /\ attempts[1].score = QInt(100)
    /\ form.wpm = 300
    /\ attempts[2].subject = "Math"
    /\ attempts[2].score = QInt(0)

-----------------------------------------------------------------------------
(* Properties of the Add Student form (SpecAll). *)

\* A name of whitespace only.
Blank(name) == \A i \in 1..Len(name) : name[i] = " "

\* stored is name without its leading and trailing whitespace.
TrimOf(name, stored) ==
    /\ stored # <<>> /\ stored[1] # " " /\ stored[Len(stored)] # " "
    /\ \E i \in 1..(Len(name) - Len(stored) + 1) :
         /\ SubSeq(name, i, i + Len(stored) - 1) = stored
         /\ Blank(SubSeq(name, 1, i - 1))
         /\ Blank(SubSeq(name, i + Len(stored), Len(name)))

\* C12: every stored student has a name that is non-empty and carries no leading
\* or trailing whitespace; a Create Student with an empty or whitespace-only name
\* reports "Name is required." and leaves the store as it was; any other create
\* appends one student whose name is the typed name trimmed.
C12_NameRequiredAndTrimmed ==
    /\ [](\A i \in 1..Len(students) : TrimOf(students[i].name, students[i].name))
    /\ [][\A name \in NameInputs :
             \/ IF Blank(name)
                THEN /\ page'.error = "Name is required."
                     /\ students' = students /\ attempts' = attempts
                ELSE /\ page'.error = ""
                     /\ Len(students') = Len(students) + 1
                     /\ SubSeq(students', 1, Len(students)) = students
                     /\ TrimOf(name, students'[Len(students')].name)
                     /\ attempts' = attempts
             \/ ~CreateStudentNamed(name)
        ]_vars

\* A whitespace-only name refused while the store holds a student created from
\* the name " a ".
C12_Witness ==
    /\ page.error = "Name is required."
    /\ Len(students) = 1
    /\ students[1].name = <<"a">>

-----------------------------------------------------------------------------
(* Properties of the role and student-mode gates (SpecAll). *)

\* A signed-in caller whose role is neither admin nor parent.
Restricted == USE_SUPABASE /\ auth /\ role \notin {"admin", "parent"}

\* The page offers none of: Results history, Admin tab, reset, Add Student form.
LockedDown ==
    /\ ~page.results.shown
    /\ "Results" \notin Range(page.tabs)
    /\ "Admin" \notin Range(page.tabs)
    /\ ~page.reset_button
    /\ ~page.add_student

\* C13: a signed-in caller whose role is neither admin nor parent is in student
\* mode in every state and no step takes it out; whenever student mode is on the
\* page offers no Results history, no Admin tab, no reset and no Add Student form,
\* and no step adds a student or drops the tables; the reset is offered, and the
\* tables are dropped, only with student mode off in local-store mode.
C13_StudentModeGating ==
    /\ [](Restricted => student_mode)
    /\ [](student_mode => (page.kid /\ LockedDown))
    /\ [](page.reset_button => (~USE_SUPABASE /\ ~student_mode /\ ~page.kid))
    /\ [][ /\ Restricted => (Restricted' /\ student_mode')
           /\ student_mode => students' = students
           /\ (students # <<>> /\ students' = <<>>) =>
                 (~USE_SUPABASE /\ ~student_mode /\ page.reset_button)
       ]_vars

\* A student-role caller on the full page of a family that has a student: three
\* tabs, student mode on.
C13_Witness ==
    /\ Restricted /\ student_mode
    /\ page.reached = "end" /\ page.kid
    /\ page.tabs = <<"Welcome", "Assessments", "Adaptive Plan">>
    /\ Len(attempts) = 2 /\ ~page.plan.warning

-----------------------------------------------------------------------------
(* Properties of the plans (SpecAssess). *)

\* The plan of a pair of bands, as a table over the sixteen pairs.
PlanLookup ==
    [rb \in Bands, mb \in Bands |-> <<reading_plan(rb), math_plan(mb)>>]

\* C11: reading_plan and math_plan return a non-empty list for each of the four
\* bands, and the plan a page displays is the entry of the pair (reading band,
\* math band) in one fixed table, whatever the raw scores and the attempts saved.
C11_PlansAreLookups ==
    /\ \A b \in Bands : reading_plan(b) # <<>> /\ math_plan(b) # <<>>
    /\ (page.plan.shown /\ ~page.plan.warning) =>
          /\ page.plan.rb \in Bands /\ page.plan.mb \in Bands
          /\ <<page.plan.reading, page.plan.math>> =
                PlanLookup[page.plan.rb, page.plan.mb]

\* A plan displayed for a perfect Reading score saved at 300 words per minute and
\* a Math score of 0.
C11_Witness ==
    /\ page.plan.shown /\ ~page.plan.warning
    /\ page.plan.rb = "Advanced" /\ page.plan.mb = "Foundations"
    /\ Len(attempts) = 2
    /\ attempts[1].score = QInt(100) /\ attempts[2].score = QInt(0)
    /\ form.wpm = 300

-----------------------------------------------------------------------------
(* Properties of the store and of the rendered page (Spec, SpecCloud). *)

\* The page shows the store as it is: the pass ran to its end and no table has
\* been dropped since.
PageCurrent == page.reached = "end" /\ page.error # ResetMessage

\* The student row whose option the selectbox holds.
SelectedRows == {students[i] : i \in {j \in 1..Len(students) : Label(students[j]) = selected}}

\* The attempt of a subject saved last for a student id, in the order of the saves.
LastSaved(student_id, subject) ==
    LET mine == SelectSeq(attempts,
                          LAMBDA r : r.student_id = student_id /\ r.subject = subject)
    IN  IF mine = <<>> THEN None ELSE <<mine[Len(mine)]>>

\* C4: the score that the Results view and the Adaptive Plan band for a subject is
\* the score of the attempt of that subject saved last for the student of the page,
\* also when two attempts carry the same creation timestamp.
C4_LatestIsLastSaved ==
    PageCurrent =>
        LET sid == page.student_id[1]
            lr == LastSaved(sid, "Reading")
            lm == LastSaved(sid, "Math")
        IN  /\ (page.results.shown /\ lr # None) =>
                 page.results.read = <<lr[1].score, band_from_score(lr[1].score)>>
            /\ (page.results.shown /\ lm # None) =>
                 page.results.math = <<lm[1].score, band_from_score(lm[1].score)>>
            /\ (~page.plan.warning) =>
                 /\ page.plan.rb = band_from_score(lr[1].score)
                 /\ page.plan.mb = band_from_score(lm[1].score)

\* C5: a plan is generated only when the selected student has both a Reading and a
\* Math attempt in the store; when either is missing the notice is shown and no
\* plan is generated.
C5_PlanOnlyWithBoth ==
    PageCurrent =>
        \A row \in SelectedRows :
            LET has(subject) ==
                    \E i \in 1..Len(attempts) :
                        attempts[i].student_id = row.id /\ attempts[i].subject = subject
            IN  /\ (~page.plan.warning) <=> (has("Reading") /\ has("Math"))
                /\ page.plan.warning => (page.plan.reading = <<>> /\ page.plan.math = <<>>)

\* C6: a failing store write of a save is caught by the caller and reported as a
\* message: no pass ends inside a save handler on an exception nobody caught.
C6_SaveFailureCaught ==
    ~(page.reached \in {"read_save", "math_save"} /\ page.error = Uncaught)

\* C7: every attempt references a student that exists in the store.
C7_AttemptsReferenceStudents ==
    \A i \in 1..Len(attempts) :
        \E j \in 1..Len(students) : students[j].id = attempts[i].student_id

\* C8: a save inserts exactly one attempt (none only when its write fails or its
\* pass stops at the empty student list before the handler) and leaves the stored
\* attempts and the students as they were; no action but the reset changes or
\* removes a stored attempt. (A step that changes the selection is no save; the
\* tests on the stores come first, the actions are evaluated last.)
C8_AppendOnly ==
    [][ /\ \/ /\ students' = students
              /\ \/ /\ attempts' = attempts
                    /\ students = <<>> \/ page'.error = Uncaught
                 \/ /\ Len(attempts') = Len(attempts) + 1
                    /\ SubSeq(attempts', 1, Len(attempts)) = attempts
                    /\ page'.reached = "end"
           \/ selected' # selected
           \/ ~(SaveReadingResult \/ SaveMathResult)
        /\ \/ /\ Len(attempts') >= Len(attempts)
              /\ SubSeq(attempts', 1, Len(attempts)) = attempts
           \/ ResetDatabase
      ]_vars

\* A second Reading attempt saved for a student, the first one still stored.
C8_Witness ==
    /\ Len(attempts) = 2
    /\ attempts[1].subject = "Reading"
    /\ attempts[2].subject = "Reading"
    /\ attempts[1].student_id = attempts[2].student_id
    /\ attempts[1].score # attempts[2].score
    /\ PageCurrent

=============================================================================
